---------------------------- MODULE Spec2Model ----------------------------
(***************************************************************************)
(* SD card over SPI and read-only FAT16 loader of                          *)
(* litex/soc/software/libbase/spi.c.                                       *)
(*                                                                         *)
(* Four specifications share the variables:                                *)
(*   SpecCard  spi_sdcard_goidle with spi_setspimode, spi_read_rbyte and   *)
(*             spi_read_byte, one step per byte sampled from the card;     *)
(*   Spec      spi_sdcard_readMBR followed by spi_sdcard_readFile, one     *)
(*             step per readSector call, the card's answer (failure, or    *)
(*             the 512 bytes of the sector) being the step's input;        *)
(*   SpecSector  one call of readSector, one step per byte read;           *)
(*   SpecTransport  either of spi_sdcard_goidle and readSector, with the   *)
(*             fairness of a transport that completes every transfer.      *)
(***************************************************************************)
EXTENDS Integers, Sequences, FiniteSets, TLC

VARIABLES
    pc,          \* position in the running function
    result,      \* value returned by the exposed function, NoResult before
    ret,         \* where spi_read_rbyte returns to
    cs,          \* spi_cs register
    rbR,         \* spi_read_rbyte: r
    rbTimeout,   \* spi_read_rbyte: timeout
    smI,         \* spi_setspimode: i
    smTimeout,   \* spi_setspimode: timeout
    smR,         \* spi_setspimode: r
    smResult,    \* value returned by spi_setspimode
    r,           \* spi_sdcard_goidle: r
    i,           \* spi_sdcard_goidle: i
    timeout,     \* spi_sdcard_goidle: timeout
    frames,      \* command frames transmitted by spi_sdcard_goidle, in order
    sdCardPartition,      \* partition entry copied from sector 0
    sdCardFatBootSector,  \* boot sector fields copied from the partition
    sdCardFatTable,       \* address of the allocation table in memory
    sdCardFat16RootDir,   \* address of the root directory in memory
    fatSectorStart,
    rootDirSectorStart,
    sdCardSector,         \* the 512-byte sector buffer: what it holds
    ram,                  \* main memory: the extents written, in order
    ramMark,              \* Len(ram) when spi_sdcard_readFile was called
    address0,             \* address as passed to spi_sdcard_readFile
    reads,                \* sector numbers passed to readSector by the
                          \* running exposed function, in order
    n,                    \* spi_sdcard_readMBR / spi_sdcard_readFile: n
    filename, ext, address,   \* spi_sdcard_readFile: arguments
    fileClusterStart, fileLength, bytesRemaining, clusterSectorStart,
    sector,               \* spi_sdcard_readFile: locals
    rfI,                  \* spi_sdcard_readFile: i
    rsSector,    \* readSector: sectorNumber
    rsFrame,     \* command frame transmitted by readSector
    rsR,         \* readSector: r
    rsTimeout,   \* readSector: timeout
    rsN,         \* readSector: n
    rsStorage,   \* readSector: the bytes of storage written, by offset
    rsBlock,     \* the block the card sends after its block-start token
    rsWaits,     \* spi_read_byte calls of the running wait for the token
    rsData       \* spi_read_byte calls made after the token

rbVars == <<rbR, rbTimeout>>
smVars == <<smI, smTimeout, smR, smResult>>
giVars == <<r, i, timeout>>
cardVars == <<ret, cs, rbVars, smVars, giVars, frames>>
mbrVars == <<sdCardPartition, sdCardFatBootSector, sdCardFatTable,
             sdCardFat16RootDir, fatSectorStart, rootDirSectorStart>>
rfVars == <<filename, ext, address, fileClusterStart, fileLength,
            bytesRemaining, clusterSectorStart, sector, rfI>>
fsVars == <<mbrVars, rfVars, n, sdCardSector, ram, ramMark, address0, reads>>

rsVars == <<rsSector, rsFrame, rsR, rsTimeout, rsN, rsStorage, rsBlock,
            rsWaits, rsData>>

vars == <<pc, result, cardVars, fsVars, rsVars>>

---------------------------------------------------------------------------
(* Return values and register values                                       *)

SUCCESS == 1
FAILURE == 0
NoResult == 0 - 1
CS_HIGH == 0
CS_LOW == 1

\* bytes the card may drive on MISO: ready, idle, an error code with the
\* high bit clear, the idle line with the high bit set
DevBytes == {0, 1, 5, 255}

RbyteTimeout == 32
ModeTimeout == 32
ModePulses == 10
ReadyTimeout == 32
TailBytes == 4

\* (r & 0x80) != 0
HighBit(b) == (b \div 128) % 2 = 1

CMD0 == <<255, 64, 0, 0, 0, 0, 149>>
CMD8 == <<255, 72, 0, 0, 1, 170, 135>>
CMD55 == <<255, 119, 0, 0, 0, 0, 0>>
ACMD41 == <<255, 105, 64, 0, 0, 0, 0>>
CMD58 == <<255, 122, 0, 0, 0, 0, 255>>
CMD16 == <<255, 80, 0, 0, 2, 0, 255>>

---------------------------------------------------------------------------
(* spi_read_rbyte.  The locals of a function that has returned are gone:   *)
(* the caller's step that takes the returned byte clears them.             *)

\* a call of spi_read_rbyte that returns to position retTo
CallRbyte(retTo) ==
    /\ pc' = "rb_sample"
    /\ ret' = retTo

\* the caller has taken the byte spi_read_rbyte returned
RbyteTaken ==
    /\ rbR' = 0
    /\ rbTimeout' = 0

\* one more pass after the counter reached zero
RbyteWaits_mut(rv, t) == HighBit(rv) /\ t >= 0

\* while( ((r&0x80)!=0) && timeout>0 )
RbyteWaits(rv, t) == HighBit(rv) /\ t > 0

SpiReadRbyteSample ==
    /\ pc = "rb_sample"
    /\ \E b \in DevBytes : rbR' = b
    /\ rbTimeout' = RbyteTimeout
    /\ pc' = "rb_loop"
    /\ UNCHANGED <<result, ret, cs, smVars, giVars, frames>>
    /\ UNCHANGED <<fsVars, rsVars>>

SpiReadRbyteLoop ==
    /\ pc = "rb_loop"
    /\ IF RbyteWaits(rbR, rbTimeout)
         THEN /\ \E b \in DevBytes : rbR' = b
              /\ rbTimeout' = rbTimeout - 1
              /\ pc' = pc
         ELSE /\ pc' = ret
              /\ UNCHANGED <<rbR, rbTimeout>>
    /\ UNCHANGED <<result, ret, cs, smVars, giVars, frames>>
    /\ UNCHANGED <<fsVars, rsVars>>

---------------------------------------------------------------------------
(* spi_setspimode                                                          *)

\* the attempts go on until a response comes
ModeRetry_mut(t, rv) == rv = 0

\* } while ( (timeout>0) && (r==0) );
ModeRetry(t, rv) == t > 0 /\ rv = 0

\* if(timeout==0) return FAILURE;
ModeFailed(t, rv) == t = 0

SetSpiModeCsHigh ==
    /\ pc = "sm_cs_high"
    /\ cs' = CS_HIGH
    /\ smI' = 0
    /\ pc' = "sm_pulse"
    /\ UNCHANGED <<result, ret, rbVars, smTimeout, smR, smResult, giVars,
                   frames>>
    /\ UNCHANGED <<fsVars, rsVars>>

SetSpiModePulse ==
    /\ pc = "sm_pulse"
    /\ IF smI < ModePulses
         THEN /\ smI' = smI + 1
              /\ UNCHANGED <<pc, cs, ret>>
         ELSE /\ cs' = CS_LOW
              /\ CallRbyte("sm_resp")
              /\ UNCHANGED smI
    /\ UNCHANGED <<result, rbVars, smTimeout, smR, smResult, giVars, frames>>
    /\ UNCHANGED <<fsVars, rsVars>>

SetSpiModeResp ==
    /\ pc = "sm_resp"
    /\ smR' = rbR
    /\ RbyteTaken
    /\ smTimeout' = smTimeout - 1
    /\ IF ModeRetry(smTimeout', smR')
         THEN /\ pc' = "sm_cs_high"
              /\ UNCHANGED smResult
         ELSE /\ smResult' = IF ModeFailed(smTimeout', smR') THEN FAILURE
                                                             ELSE SUCCESS
              /\ pc' = "gi_mode"
    /\ UNCHANGED <<result, ret, cs, smI, giVars, frames>>
    /\ UNCHANGED <<fsVars, rsVars>>

---------------------------------------------------------------------------
(* spi_sdcard_goidle                                                       *)

\* if( r != 0x01 ) return FAILURE;   after spi_setspimode
ModePassed(rv) == rv = 1
\* if(r!=0x01) return FAILURE;       after CMD0
Cmd0Passed(rv) == rv = 1
Cmd8Passed_mut(rv) == ~(rv > 1)
\* if(r!=0x01) return FAILURE;       after CMD8
Cmd8Passed(rv) == rv = 1
ReadyRetry_mut(rv, t) == rv # 0 /\ t > 1
\* } while ((r != 0x00) && (timeout>0));
ReadyRetry(rv, t) == rv # 0 /\ t > 0
\* if(r!=0x00) return FAILURE;       after the ready poll
ReadyPassed(rv) == rv = 0
\* if(r>0x01) return FAILURE;        after CMD58
Cmd58Passed(rv) == ~(rv > 1)
\* if(r!=0x00) return FAILURE;       after CMD16
Cmd16Passed(rv) == rv = 0

Return(v) ==
    /\ pc' = "done"
    /\ result' = v

\* the seven spi_write_byte calls of one command, then r = spi_read_rbyte()
SendFrame(f, retTo) ==
    /\ frames' = Append(frames, f)
    /\ CallRbyte(retTo)
    /\ UNCHANGED result

GoIdleCall ==
    /\ pc = "idle"
    /\ smTimeout' = ModeTimeout
    /\ pc' = "sm_cs_high"
    /\ UNCHANGED <<result, ret, cs, rbVars, smI, smR, smResult, giVars,
                   frames>>
    /\ UNCHANGED <<fsVars, rsVars>>

\* r = spi_setspimode(); the locals of spi_setspimode end here
GoIdleMode ==
    /\ pc = "gi_mode"
    /\ r' = smResult
    /\ smI' = 0 /\ smTimeout' = 0 /\ smR' = 0 /\ smResult' = NoResult
    /\ IF ~ModePassed(r')
         THEN Return(FAILURE) /\ UNCHANGED <<frames, ret>>
         ELSE SendFrame(CMD0, "gi_cmd0")
    /\ UNCHANGED <<cs, rbVars, i, timeout>>
    /\ UNCHANGED <<fsVars, rsVars>>

GoIdleCmd0 ==
    /\ pc = "gi_cmd0"
    /\ r' = rbR
    /\ RbyteTaken
    /\ IF ~Cmd0Passed(r')
         THEN Return(FAILURE) /\ UNCHANGED <<frames, ret>>
         ELSE SendFrame(CMD8, "gi_cmd8")
    /\ UNCHANGED <<cs, smVars, i, timeout>>
    /\ UNCHANGED <<fsVars, rsVars>>

GoIdleCmd8 ==
    /\ pc = "gi_cmd8"
    /\ r' = rbR
    /\ RbyteTaken
    /\ IF ~Cmd8Passed(r')
         THEN Return(FAILURE) /\ UNCHANGED i
         ELSE /\ i' = 0
              /\ pc' = "gi_cmd8_tail"
              /\ UNCHANGED result
    /\ UNCHANGED <<ret, cs, smVars, timeout, frames>>
    /\ UNCHANGED <<fsVars, rsVars>>

\* for(i=0; i<4; i++) r=spi_read_byte();  then the first CMD55
GoIdleCmd8Tail ==
    /\ pc = "gi_cmd8_tail"
    /\ IF i < TailBytes
         THEN /\ \E b \in DevBytes : r' = b
              /\ i' = i + 1
              /\ UNCHANGED <<pc, result, timeout, frames, ret>>
         ELSE /\ timeout' = ReadyTimeout
              /\ SendFrame(CMD55, "gi_cmd55")
              /\ UNCHANGED <<r, i>>
    /\ UNCHANGED <<cs, rbVars, smVars>>
    /\ UNCHANGED <<fsVars, rsVars>>

GoIdleCmd55 ==
    /\ pc = "gi_cmd55"
    /\ r' = rbR
    /\ RbyteTaken
    /\ SendFrame(ACMD41, "gi_acmd41")
    /\ UNCHANGED <<cs, smVars, i, timeout>>
    /\ UNCHANGED <<fsVars, rsVars>>

GoIdleAcmd41 ==
    /\ pc = "gi_acmd41"
    /\ r' = rbR
    /\ RbyteTaken
    /\ timeout' = timeout - 1
    /\ IF ReadyRetry(r', timeout')
         THEN SendFrame(CMD55, "gi_cmd55")
         ELSE IF ~ReadyPassed(r')
                THEN Return(FAILURE) /\ UNCHANGED <<frames, ret>>
                ELSE SendFrame(CMD58, "gi_cmd58")
    /\ UNCHANGED <<cs, smVars, i>>
    /\ UNCHANGED <<fsVars, rsVars>>

GoIdleCmd58 ==
    /\ pc = "gi_cmd58"
    /\ r' = rbR
    /\ RbyteTaken
    /\ IF ~Cmd58Passed(r')
         THEN Return(FAILURE) /\ UNCHANGED i
         ELSE /\ i' = 0
              /\ pc' = "gi_cmd58_tail"
              /\ UNCHANGED result
    /\ UNCHANGED <<ret, cs, smVars, timeout, frames>>
    /\ UNCHANGED <<fsVars, rsVars>>

\* for(i=0; i<4; i++) r=spi_read_byte();  then CMD16
GoIdleCmd58Tail ==
    /\ pc = "gi_cmd58_tail"
    /\ IF i < TailBytes
         THEN /\ \E b \in DevBytes : r' = b
              /\ i' = i + 1
              /\ UNCHANGED <<pc, result, frames, ret>>
         ELSE /\ SendFrame(CMD16, "gi_cmd16")
              /\ UNCHANGED <<r, i>>
    /\ UNCHANGED <<cs, rbVars, smVars, timeout>>
    /\ UNCHANGED <<fsVars, rsVars>>

GoIdleCmd16 ==
    /\ pc = "gi_cmd16"
    /\ r' = rbR
    /\ RbyteTaken
    /\ IF ~Cmd16Passed(r')
         THEN Return(FAILURE)
         ELSE Return(SUCCESS)
    /\ UNCHANGED <<ret, cs, smVars, i, timeout, frames>>
    /\ UNCHANGED <<fsVars, rsVars>>

---------------------------------------------------------------------------
(* The card as a block device, and memory.                                 *)
(*                                                                         *)
(* readSector(sectorNumber, storage) is one step here: it either fails     *)
(* (storage untouched) or stores the 512 bytes of the sector at storage.   *)
(* Memory is the sequence ram of the extents written so far; an extent     *)
(* records where its bytes came from (card sector sec, from byte off on)   *)
(* and, for a sector of filesystem metadata, what the card holds there.    *)
(* A byte of memory is what the last extent covering it wrote.             *)

\* unsigned char sdCardSector[512]; readSector stores 512 bytes
SectorBytes == 512
\* sizeof(Fat16Entry), packed, long being 32 bits on the SoC's processor
EntryBytes == 32
\* sizeof(unsigned short)
WordBytes == 2

\* generated/mem.h gives the main RAM of the SoC built; here 32 MB at
\* 0x40000000. The tables go to its top, files to its base.
MAIN_RAM_BASE == 1073741824
MAIN_RAM_SIZE == 33554432

NoSector == 0 - 1

\* contents of a sector the loader does not interpret
DataImg == [kind |-> "data"]

Extent(a, l, s, o, im) == [addr |-> a, len |-> l, sec |-> s, off |-> o,
                           img |-> im]

\* the extents of ram that cover address a
Covering(mem, a) ==
    {j \in 1..Len(mem) : mem[j].addr <= a /\ a < mem[j].addr + mem[j].len}

MaxOf(S) == CHOOSE x \in S : \A y \in S : y <= x

\* for(n=0; n<512; n++) storage[n]=spi_read_byte();
StoreSector(storage, sectorNumber, im) ==
    Append(ram, Extent(storage, SectorBytes, sectorNumber, 0, im))

\* a copy of the whole sector whatever count remains
MemcpyFromSector_mut(dst, buf, count) ==
    Append(ram, Extent(dst, SectorBytes, buf.sec, 0, buf.img))

\* memcpy((unsigned char *)address, sdCardSector, bytesRemaining) with buf
\* the contents of sdCardSector: the bytes past the 512 of sdCardSector are
\* whatever follows the array
MemcpyFromSector(dst, buf, count) ==
    IF count = 0 THEN ram
    ELSE IF count <= SectorBytes
      THEN Append(ram, Extent(dst, count, buf.sec, 0, buf.img))
      ELSE ram \o <<Extent(dst, SectorBytes, buf.sec, 0, buf.img),
                    Extent((dst + SectorBytes), count - SectorBytes,
                           NoSector, 0, DataImg)>>

---------------------------------------------------------------------------
(* readSector, byte by byte                                                *)

TokenTimeout == 16384
BlockStart == 254
CrcBytes == 8

\* 0xff 0x51 and sectorNumber, most significant byte first, then 0xff
CMD17(sn) ==
    <<255, 81, (sn \div 16777216) % 256, (sn \div 65536) % 256,
      (sn \div 256) % 256, sn % 256, 255>>

\* sector numbers asked for
SectorNumbers == {0, 66051}

\* bytes the card may drive while the block is awaited: idle line, the
\* block-start token, an error token
TokenBytes == {255, 254, 1}

\* blocks the card may send, and byte k of the 520 bytes of block b
Blocks == {1, 3}
DataByte(b, k) == (b * k + b) % 256

\* if( r!=0x00 ) return FAILURE;
ReadAccepted(rv) == ~(rv # 0)

\* one more pass after the counter reached zero
TokenWaits_mut(rv, t) == rv # BlockStart /\ t >= 0

\* while( (r!=0xfe) && (timeout>0) )
TokenWaits(rv, t) == rv # BlockStart /\ t > 0

\* if( r!=0xfe ) return FAILURE;
TokenMissed(rv) == rv # BlockStart

\* the bytes stored from the end of storage downwards
StoreByte_mut(storage, k, b) ==
    [j \in DOMAIN storage \cup {SectorBytes - 1 - k} |->
        IF j = SectorBytes - 1 - k THEN b ELSE storage[j]]

\* storage[n]=spi_read_byte();
StoreByte(storage, k, b) ==
    [j \in DOMAIN storage \cup {k} |-> IF j = k THEN b ELSE storage[j]]

\* return from readSector: its locals are gone
ReturnSector(v) ==
    /\ pc' = "rs_done"
    /\ result' = v
    /\ rsR' = 0
    /\ rsTimeout' = 0
    /\ rsN' = 0
    /\ rsWaits' = 0

\* the call and the command frame, up to the call of spi_read_rbyte
ReadSectorCall ==
    /\ pc = "rs_idle"
    /\ \E sn \in SectorNumbers :
         /\ rsSector' = sn
         /\ rsFrame' = CMD17(sn)
    /\ CallRbyte("rs_resp")
    /\ UNCHANGED <<result, cs, rbVars, smVars, giVars, frames>>
    /\ UNCHANGED <<rsR, rsTimeout, rsN, rsStorage, rsBlock, rsWaits, rsData>>
    /\ UNCHANGED fsVars

\* r=spi_read_rbyte(); the test of r; r=spi_read_byte(); timeout=16384;
ReadSectorResp ==
    /\ pc = "rs_resp"
    /\ RbyteTaken
    /\ IF ~ReadAccepted(rbR)
         THEN /\ ReturnSector(FAILURE)
         ELSE /\ \E b \in TokenBytes : rsR' = b
              /\ rsTimeout' = TokenTimeout
              /\ rsWaits' = 1
              /\ pc' = "rs_wait"
              /\ UNCHANGED <<result, rsN>>
    /\ UNCHANGED <<ret, cs, smVars, giVars, frames>>
    /\ UNCHANGED <<rsSector, rsFrame, rsStorage, rsBlock, rsData>>
    /\ UNCHANGED fsVars

\* the loop awaiting the block-start token and the test after it
ReadSectorWait ==
    /\ pc = "rs_wait"
    /\ IF TokenWaits(rsR, rsTimeout)
         THEN /\ \E b \in TokenBytes : rsR' = b
              /\ rsTimeout' = rsTimeout - 1
              /\ rsWaits' = rsWaits + 1
              /\ UNCHANGED <<pc, result, rsN, rsBlock>>
         ELSE IF TokenMissed(rsR)
           THEN /\ ReturnSector(FAILURE)
                /\ UNCHANGED rsBlock
           ELSE /\ \E b \in Blocks : rsBlock' = b
                /\ rsN' = 0
                /\ rsTimeout' = 0
                /\ rsWaits' = 0
                /\ pc' = "rs_data"
                /\ UNCHANGED <<result, rsR>>
    /\ UNCHANGED <<rsSector, rsFrame, rsStorage, rsData>>
    /\ UNCHANGED cardVars
    /\ UNCHANGED fsVars

\* for(n=0; n<512; n++) storage[n]=spi_read_byte();
ReadSectorData ==
    /\ pc = "rs_data"
    /\ IF rsN < SectorBytes
         THEN /\ rsStorage' = StoreByte(rsStorage, rsN,
                                        DataByte(rsBlock, rsData))
              /\ rsData' = rsData + 1
              /\ rsN' = rsN + 1
              /\ UNCHANGED pc
         ELSE /\ rsN' = 0
              /\ pc' = "rs_crc"
              /\ UNCHANGED <<rsStorage, rsData>>
    /\ UNCHANGED <<result, rsSector, rsFrame, rsR, rsTimeout, rsBlock,
                   rsWaits>>
    /\ UNCHANGED cardVars
    /\ UNCHANGED fsVars

\* the last of the 8 bytes tested once the block is stored
ReadSectorCrc_mut ==
    /\ pc = "rs_crc"
    /\ IF rsN < CrcBytes
         THEN /\ rsR' = DataByte(rsBlock, rsData)
              /\ rsData' = rsData + 1
              /\ rsN' = rsN + 1
              /\ UNCHANGED <<pc, result, rsTimeout, rsWaits>>
         ELSE /\ ReturnSector(IF rsR = 255 THEN SUCCESS ELSE FAILURE)
              /\ UNCHANGED rsData
    /\ UNCHANGED <<rsSector, rsFrame, rsStorage, rsBlock>>
    /\ UNCHANGED cardVars
    /\ UNCHANGED fsVars

\* for(n=0; n<8; n++) r=spi_read_byte();   return SUCCESS;
ReadSectorCrc ==
    /\ pc = "rs_crc"
    /\ IF rsN < CrcBytes
         THEN /\ rsR' = DataByte(rsBlock, rsData)
              /\ rsData' = rsData + 1
              /\ rsN' = rsN + 1
              /\ UNCHANGED <<pc, result, rsTimeout, rsWaits>>
         ELSE /\ ReturnSector(SUCCESS)
              /\ UNCHANGED rsData
    /\ UNCHANGED <<rsSector, rsFrame, rsStorage, rsBlock>>
    /\ UNCHANGED cardVars
    /\ UNCHANGED fsVars

---------------------------------------------------------------------------
(* What the card may hold                                                  *)

StatusBytes == 0..255
TypeBytes == 0..255
PartStarts == {63}

BootSector(ss, spc, res, nf, rde, tss, tsl, fsz) ==
    [sector_size |-> ss, sectors_per_cluster |-> spc,
     reserved_sectors |-> res, number_of_fats |-> nf,
     root_dir_entries |-> rde, total_sectors_short |-> tss,
     total_sectors_long |-> tsl, fat_size_sectors |-> fsz]

BootSectors ==
    { BootSector(512, 4, 1, 2, 16, 0, 4096, 1),
      BootSector(512, 1, 1, 2, 16, 0, 4096, 1),
      BootSector(512, 2, 1, 1, 32, 0, 4096, 2),
      BootSector(512, 1, 1, 2, 24, 0, 4096, 1),
      BootSector(1024, 1, 1, 2, 32, 0, 4096, 1),
      BootSector(256, 1, 1, 2, 16, 0, 4096, 2),
      BootSector(512, 1, 1, 2, 16, 0, 0, 1),
      BootSector(512, 1, 1, 2, 16, 4096, 0, 1) }

Entry(nm, ex, cl, sz) ==
    [filename |-> nm, ext |-> ex, starting_cluster |-> cl, file_size |-> sz]

\* 8.3 names as character codes, space padded
N_HELLO == <<72, 69, 76, 76, 79, 32, 32, 32>>
N_HELLOX == <<72, 69, 76, 76, 79, 88, 32, 32>>
N_EMPTY == <<69, 77, 80, 84, 89, 32, 32, 32>>
N_ZERO == <<90, 69, 82, 79, 32, 32, 32, 32>>
N_BIG == <<66, 73, 71, 32, 32, 32, 32, 32>>
N_ODD == <<79, 68, 68, 32, 32, 32, 32, 32>>
N_FREE == <<0, 69, 76, 76, 79, 32, 32, 32>>
N_NONE == <<0, 0, 0, 0, 0, 0, 0, 0>>
X_TXT == <<84, 88, 84>>
X_BIN == <<66, 73, 78>>
X_NONE == <<0, 0, 0>>

ZeroEntry == Entry(N_NONE, X_NONE, 0, 0)

EntriesPerSector == SectorBytes \div EntryBytes

\* a directory sector: the given entries, then unused ones
DirSector(es) ==
    [j \in 1..EntriesPerSector |-> IF j <= Len(es) THEN es[j] ELSE ZeroEntry]

DirImages ==
    { DirSector(<< Entry(N_FREE, X_TXT, 4, 7),
                   Entry(N_HELLOX, X_TXT, 3, 512),
                   Entry(N_HELLO, X_BIN, 5, 513),
                   Entry(N_HELLO, X_TXT, 2, 10),
                   Entry(N_ZERO, X_TXT, 5, 0),
                   Entry(N_EMPTY, X_TXT, 0, 0),
                   Entry(N_BIG, X_BIN, 2, 2048),
                   Entry(N_ODD, X_BIN, 2, 1025) >>),
      DirSector(<< Entry(N_FREE, X_BIN, 4, 7),
                   Entry(N_HELLO, X_TXT, 2, 10) >>) }

\* the first words of an allocation-table sector, the rest being 0:
\* chains 2 -> 3 -> 4 -> end and 5 -> 6 -> end; chain 2 -> 5 -> 3 -> end
FatImages ==
    { <<65528, 65535, 3, 4, 65535, 6, 65535>>,
      <<65528, 65535, 5, 65535, 0, 3>> }

\* what uninitialized memory may hold where the loader reads it
GarbageEntries == {ZeroEntry, Entry(N_HELLO, X_TXT, 9, 1)}
GarbageWords == {0, 9}
GarbageLengths == {0, 1}

\* caller's arguments: file names and extensions as C strings
FileNames ==
    { <<>>, <<72, 69, 76, 76, 79>>, <<72, 69, 76, 76, 79, 88>>,
      <<69, 77, 80, 84, 89>>, <<90, 69, 82, 79>>, <<66, 73, 71>>,
      <<79, 68, 68>>, <<78, 79, 78, 69>> }
FileExts == { <<>>, <<84, 88, 84>>, <<66, 73, 78>> }
DestAddrs == {MAIN_RAM_BASE}

---------------------------------------------------------------------------
(* Reading the loaded tables                                               *)

\* the values sdCardFat16RootDir[k] may have
RootDirEntry(mem, k) ==
    LET a == (sdCardFat16RootDir + EntryBytes * k)
        c == Covering(mem, a)
    IN  IF c = {} THEN GarbageEntries
        ELSE LET e == mem[MaxOf(c)]
                 o == a - e.addr + e.off
             IN  IF /\ e.img.kind = "dir"
                    /\ o % EntryBytes = 0
                    /\ a + EntryBytes <= e.addr + e.len
                   THEN {e.img.entries[o \div EntryBytes + 1]}
                   ELSE GarbageEntries

\* the values sdCardFatTable[k] may have
FatEntry(mem, k) ==
    LET a == (sdCardFatTable + WordBytes * k)
        c == Covering(mem, a)
    IN  IF c = {} THEN GarbageWords
        ELSE LET e == mem[MaxOf(c)]
                 o == a - e.addr + e.off
             IN  IF e.img.kind = "fat" /\ o % WordBytes = 0
                   THEN {IF o \div WordBytes < Len(e.img.words)
                           THEN e.img.words[o \div WordBytes + 1]
                           ELSE 0}
                   ELSE GarbageWords

---------------------------------------------------------------------------
(* spi_sdcard_readMBR                                                      *)

\* if( (first_byte!=0x80) && (first_byte!=0x00) ) return FAILURE;
StatusValid(b) == ~(b # 128 /\ b # 0)

\* type 14 (FAT16 with LBA) left out
TypeValid_mut(t) == t = 4 \/ t = 6

\* if( (partition_type==4) || (partition_type==6) || (partition_type==14) )
TypeValid(t) == t = 4 \/ t = 6 \/ t = 14

\* if(sdCardFatBootSector.total_sectors_long==0) return FAILURE;
BootSectorEmpty(bs) == bs.total_sectors_long = 0

\* MAIN_RAM_BASE+MAIN_RAM_SIZE-sector_size*fat_size_sectors
FatTableAddr(bs) ==
    (MAIN_RAM_BASE + MAIN_RAM_SIZE
       - bs.sector_size * bs.fat_size_sectors)

\* ... -root_dir_entries*sizeof(Fat16Entry)
RootDirAddr(bs) ==
    (MAIN_RAM_BASE + MAIN_RAM_SIZE - bs.sector_size * bs.fat_size_sectors
       - bs.root_dir_entries * EntryBytes)

\* the second copy of the table is the one loaded
FatSectorStart_mut(p, bs) ==
    (p.start_sector + bs.reserved_sectors + bs.fat_size_sectors)

\* start_sector+reserved_sectors
FatSectorStart(p, bs) == (p.start_sector + bs.reserved_sectors)

\* start_sector+reserved_sectors+number_of_fats*fat_size_sectors
RootDirSectorStart(p, bs) ==
    (p.start_sector + bs.reserved_sectors
       + bs.number_of_fats * bs.fat_size_sectors)

\* root_dir_entries*sizeof(Fat16Entry)/sector_size
RootDirSectors(bs) == (bs.root_dir_entries * EntryBytes) \div bs.sector_size

\* a failure is recorded but the load goes on
ReturnMBR_mut(v) ==
    /\ pc' = IF v = SUCCESS THEN "loaded" ELSE pc
    /\ result' = v

ReturnMBR(v) ==
    /\ pc' = IF v = SUCCESS THEN "loaded" ELSE "mbr_failed"
    /\ result' = v

\* readSector(0x00000000, sdCardSector), the partition entry and its checks
ReadMBRSector0 ==
    /\ pc = "idle"
    /\ reads' = Append(reads, 0)
    /\ \/ /\ ReturnMBR(FAILURE)
          /\ UNCHANGED <<sdCardSector, sdCardPartition>>
       \/ \E fb \in StatusBytes, pt \in TypeBytes, st \in PartStarts :
            LET p == [first_byte |-> fb, partition_type |-> pt,
                      start_sector |-> st]
            IN  /\ sdCardSector' = [sec |-> 0, img |-> [kind |-> "mbr"]]
                /\ sdCardPartition' = p
                /\ IF ~StatusValid(p.first_byte)
                     THEN ReturnMBR(FAILURE)
                     ELSE IF ~TypeValid(p.partition_type)
                            THEN ReturnMBR(FAILURE)
                            ELSE pc' = "mbr_boot" /\ UNCHANGED result
    /\ UNCHANGED <<sdCardFatBootSector, sdCardFatTable, sdCardFat16RootDir,
                   fatSectorStart, rootDirSectorStart, ram, ramMark, address0,
                   n, rfVars>>
    /\ UNCHANGED <<cardVars, rsVars>>

\* readSector(sdCardPartition.start_sector, sdCardSector), the empty check,
\* and the set-up of the allocation-table load
ReadMBRBootSector ==
    /\ pc = "mbr_boot"
    /\ reads' = Append(reads, sdCardPartition.start_sector)
    /\ \/ /\ ReturnMBR(FAILURE)
          /\ UNCHANGED <<sdCardSector, sdCardFatBootSector, sdCardFatTable,
                         fatSectorStart, n>>
       \/ \E bs \in BootSectors :
            /\ sdCardSector' = [sec |-> sdCardPartition.start_sector,
                                img |-> [kind |-> "boot"]]
            /\ sdCardFatBootSector' = bs
            /\ IF BootSectorEmpty(bs)
                 THEN /\ ReturnMBR(FAILURE)
                      /\ UNCHANGED <<sdCardFatTable, fatSectorStart, n>>
                 ELSE /\ sdCardFatTable' = FatTableAddr(bs)
                      /\ fatSectorStart' = FatSectorStart(sdCardPartition, bs)
                      /\ n' = 0
                      /\ pc' = "mbr_fat"
                      /\ UNCHANGED result
    /\ UNCHANGED <<sdCardPartition, sdCardFat16RootDir, rootDirSectorStart,
                   ram, ramMark, address0, rfVars>>
    /\ UNCHANGED <<cardVars, rsVars>>

\* for(n=0; n<fat_size_sectors; n++) readSector(fatSectorStart+n, ...);
\* after the last one, the set-up of the root-directory load
ReadMBRFatTable ==
    /\ pc = "mbr_fat"
    /\ IF n < sdCardFatBootSector.fat_size_sectors
         THEN /\ reads' = Append(reads, (fatSectorStart + n))
              /\ \/ /\ ReturnMBR(FAILURE)
                    /\ UNCHANGED <<ram, n>>
                 \/ \E w \in (IF n = 0 THEN FatImages ELSE {<<>>}) :
                      /\ ram' = StoreSector(
                            (sdCardFatTable
                               + sdCardFatBootSector.sector_size * n),
                            (fatSectorStart + n),
                            [kind |-> "fat", words |-> w])
                      /\ n' = n + 1
                      /\ UNCHANGED <<pc, result>>
              /\ UNCHANGED <<sdCardFat16RootDir, rootDirSectorStart>>
         ELSE /\ sdCardFat16RootDir' = RootDirAddr(sdCardFatBootSector)
              /\ rootDirSectorStart' =
                     RootDirSectorStart(sdCardPartition, sdCardFatBootSector)
              /\ n' = 0
              /\ pc' = "mbr_dir"
              /\ UNCHANGED <<result, reads, ram>>
    /\ UNCHANGED <<sdCardSector, sdCardPartition, sdCardFatBootSector,
                   sdCardFatTable, fatSectorStart, ramMark, address0,
                   rfVars>>
    /\ UNCHANGED <<cardVars, rsVars>>

\* for(n=0; n<root_dir_entries*sizeof(Fat16Entry)/sector_size; n++)
\*     readSector(rootDirSectorStart+n, ...);   then the listing and return
ReadMBRRootDir ==
    /\ pc = "mbr_dir"
    /\ IF n < RootDirSectors(sdCardFatBootSector)
         THEN /\ reads' = Append(reads, (rootDirSectorStart + n))
              /\ \/ /\ ReturnMBR(FAILURE)
                    /\ UNCHANGED <<ram, n>>
                 \/ \E d \in (IF n = 0 THEN DirImages
                                       ELSE {DirSector(<<>>)}) :
                      /\ ram' = StoreSector(
                            (sdCardFatBootSector.sector_size * n
                               + sdCardFat16RootDir),
                            (rootDirSectorStart + n),
                            [kind |-> "dir", entries |-> d])
                      /\ n' = n + 1
                      /\ UNCHANGED <<pc, result>>
         ELSE /\ ReturnMBR(SUCCESS)
              /\ UNCHANGED <<reads, ram, n>>
    /\ UNCHANGED <<sdCardSector, sdCardPartition, sdCardFatBootSector,
                   sdCardFatTable, sdCardFat16RootDir, fatSectorStart,
                   rootDirSectorStart, ramMark, address0, rfVars>>
    /\ UNCHANGED <<cardVars, rsVars>>

---------------------------------------------------------------------------
(* spi_sdcard_readFile                                                     *)

\* the last character compared decides
RECURSIVE CompareLoop_mut(_, _, _, _)
CompareLoop_mut(field, s, k, nameMatch) ==
    IF k < Len(s)
      THEN CompareLoop_mut(field, s, k + 1,
                           IF field[k + 1] # s[k + 1] THEN 0 ELSE 1)
      ELSE nameMatch

\* for(i=0; i<strlen(s); i++) if(field[i]!=s[i]) nameMatch=0;
RECURSIVE CompareLoop(_, _, _, _)
CompareLoop(field, s, k, nameMatch) ==
    IF k < Len(s)
      THEN CompareLoop(field, s, k + 1,
                       IF field[k + 1] # s[k + 1] THEN 0 ELSE nameMatch)
      ELSE nameMatch

\* unused entries compared like any other
NameMatch_mut(e, fname, fext) ==
    CompareLoop(e.ext, fext, 0, CompareLoop(e.filename, fname, 0, 1))

\* nameMatch after the body of the directory scan for entry e
NameMatch(e, fname, fext) ==
    IF e.filename[1] # 0
      THEN CompareLoop(e.ext, fext, 0, CompareLoop(e.filename, fname, 0, 1))
      ELSE 0

\* while( (fileClusterStart==0) && (n<root_dir_entries) )
ScanContinues(fcs, nn) ==
    fcs = 0 /\ nn < sdCardFatBootSector.root_dir_entries

\* the clusters the file length needs, rounded up
ClusterCount_mut(len) ==
    (len + sdCardFatBootSector.sectors_per_cluster
             * sdCardFatBootSector.sector_size - 1)
      \div (sdCardFatBootSector.sectors_per_cluster
              * sdCardFatBootSector.sector_size)

\* 1+((fileLength/sectors_per_cluster)/sector_size)
ClusterCount(len) ==
    1 + ((len \div sdCardFatBootSector.sectors_per_cluster)
           \div sdCardFatBootSector.sector_size)

\* rootDirSectorStart+(fileClusterStart-1)*sectors_per_cluster
ClusterSectorStart(fcs) ==
    (rootDirSectorStart
       + (fcs - 1) * sdCardFatBootSector.sectors_per_cluster)

\* a last full sector read directly
ReadsDirect_mut(remaining) == remaining >= sdCardFatBootSector.sector_size

\* if(bytesRemaining>sdCardFatBootSector.sector_size)
ReadsDirect(remaining) == remaining > sdCardFatBootSector.sector_size

ReturnFile(v) ==
    /\ pc' = "rf_done"
    /\ result' = v

\* the loop test of the directory scan with fileClusterStart = fcs, n = nn
\* and fileLength = len, and what follows the loop up to the first sector
AfterScanBody(fcs, nn, len) ==
    /\ fileClusterStart' = fcs
    /\ n' = nn
    /\ fileLength' = len
    /\ IF ScanContinues(fcs, nn)
         THEN /\ pc' = "rf_scan"
              /\ result' = NoResult
              /\ UNCHANGED <<bytesRemaining, rfI, sector, clusterSectorStart>>
         ELSE IF fcs = 0
           THEN /\ ReturnFile(FAILURE)
                /\ UNCHANGED <<bytesRemaining, rfI, sector,
                               clusterSectorStart>>
           ELSE IF len = 0
             THEN /\ ReturnFile(SUCCESS)
                  /\ UNCHANGED <<bytesRemaining, rfI, sector,
                                 clusterSectorStart>>
             ELSE /\ bytesRemaining' = len
                  /\ rfI' = 0
                  /\ clusterSectorStart' = ClusterSectorStart(fcs)
                  /\ sector' = 0
                  /\ pc' = "rf_sector"
                  /\ result' = NoResult

\* the call, fileClusterStart=0; n=0; and the first loop test; fileLength
\* is not initialized
ReadFileCall ==
    /\ pc = "loaded"
    /\ \E fname \in FileNames, fext \in FileExts, dst \in DestAddrs,
          len \in GarbageLengths :
         /\ filename' = fname
         /\ ext' = fext
         /\ address' = dst
         /\ address0' = dst
         /\ AfterScanBody(0, 0, len)
    /\ reads' = <<>>
    /\ ramMark' = Len(ram)
    /\ UNCHANGED <<mbrVars, sdCardSector, ram>>
    /\ UNCHANGED <<cardVars, rsVars>>

\* the body of the directory scan for entry n, then AfterScanBody
ReadFileScan ==
    /\ pc = "rf_scan"
    /\ \E e \in RootDirEntry(ram, n) :
         IF NameMatch(e, filename, ext) = 1
           THEN AfterScanBody(e.starting_cluster, n, e.file_size)
           ELSE AfterScanBody(fileClusterStart, n + 1, fileLength)
    /\ UNCHANGED <<mbrVars, filename, ext, address, sdCardSector, ram,
                   ramMark, address0, reads>>
    /\ UNCHANGED <<cardVars, rsVars>>

\* the end of one pass of the sector loop: the next sector of the cluster,
\* or fileClusterStart=sdCardFatTable[fileClusterStart] and the next
\* cluster, or the end of the cluster loop
AfterSector ==
    IF sector + 1 < sdCardFatBootSector.sectors_per_cluster
      THEN /\ sector' = sector + 1
           /\ UNCHANGED <<pc, result, fileClusterStart, rfI,
                          clusterSectorStart>>
      ELSE \E next \in FatEntry(ram', fileClusterStart) :
             /\ fileClusterStart' = next
             /\ rfI' = rfI + 1
             /\ IF rfI' < ClusterCount(fileLength)
                  THEN /\ clusterSectorStart' = ClusterSectorStart(next)
                       /\ sector' = 0
                       /\ UNCHANGED <<pc, result>>
                  ELSE /\ ReturnFile(SUCCESS)
                       /\ sector' = sector + 1
                       /\ UNCHANGED clusterSectorStart

\* one pass of the sector loop: a sector read into the destination or into
\* sdCardSector
ReadFileSector ==
    /\ pc = "rf_sector"
    /\ LET sn == (clusterSectorStart + sector)
       IN  /\ reads' = Append(reads, sn)
           /\ \/ /\ ReturnFile(FAILURE)
                 /\ UNCHANGED <<ram, sdCardSector, bytesRemaining, address,
                                sector, fileClusterStart, rfI,
                                clusterSectorStart>>
              \/ /\ IF ReadsDirect(bytesRemaining)
                      THEN /\ ram' = StoreSector(address, sn, DataImg)
                           /\ bytesRemaining' = bytesRemaining
                                  - sdCardFatBootSector.sector_size
                           /\ address' = (address
                                  + sdCardFatBootSector.sector_size)
                           /\ UNCHANGED sdCardSector
                      ELSE /\ sdCardSector' = [sec |-> sn, img |-> DataImg]
                           /\ ram' = MemcpyFromSector(address, sdCardSector',
                                                      bytesRemaining)
                           /\ bytesRemaining' = 0
                           /\ UNCHANGED address
                 /\ AfterSector
    /\ UNCHANGED <<mbrVars, filename, ext, fileLength, n, ramMark,
                   address0>>
    /\ UNCHANGED <<cardVars, rsVars>>

---------------------------------------------------------------------------
(* Initial state and the specifications                                    *)

InitCardVars ==
    /\ ret = "none"
    /\ cs = CS_HIGH
    /\ rbR = 0
    /\ rbTimeout = 0
    /\ smI = 0
    /\ smTimeout = 0
    /\ smR = 0
    /\ smResult = NoResult
    /\ r = 0
    /\ i = 0
    /\ timeout = 0
    /\ frames = <<>>

\* the globals are zero until spi_sdcard_readMBR sets them
InitFSVars ==
    /\ sdCardPartition = [first_byte |-> 0, partition_type |-> 0,
                          start_sector |-> 0]
    /\ sdCardFatBootSector = BootSector(0, 0, 0, 0, 0, 0, 0, 0)
    /\ sdCardFatTable = 0
    /\ sdCardFat16RootDir = 0
    /\ fatSectorStart = 0
    /\ rootDirSectorStart = 0
    /\ sdCardSector = [sec |-> NoSector, img |-> DataImg]
    /\ ram = <<>>
    /\ ramMark = 0
    /\ address0 = 0
    /\ reads = <<>>
    /\ n = 0
    /\ filename = <<>>
    /\ ext = <<>>
    /\ address = 0
    /\ fileClusterStart = 0
    /\ fileLength = 0
    /\ bytesRemaining = 0
    /\ clusterSectorStart = 0
    /\ sector = 0
    /\ rfI = 0

\* storage holds nothing of the card before readSector runs
InitRSVars ==
    /\ rsSector = 0
    /\ rsFrame = <<>>
    /\ rsR = 0
    /\ rsTimeout = 0
    /\ rsN = 0
    /\ rsStorage = [k \in {} |-> 0]
    /\ rsBlock = 0
    /\ rsWaits = 0
    /\ rsData = 0

Init ==
    /\ pc = "idle"
    /\ result = NoResult
    /\ InitCardVars
    /\ InitFSVars
    /\ InitRSVars

InitSector ==
    /\ pc = "rs_idle"
    /\ result = NoResult
    /\ InitCardVars
    /\ InitFSVars
    /\ InitRSVars

NextCard ==
    \/ GoIdleCall
    \/ SetSpiModeCsHigh
    \/ SetSpiModePulse
    \/ SetSpiModeResp
    \/ SpiReadRbyteSample
    \/ SpiReadRbyteLoop
    \/ GoIdleMode
    \/ GoIdleCmd0
    \/ GoIdleCmd8
    \/ GoIdleCmd8Tail
    \/ GoIdleCmd55
    \/ GoIdleAcmd41
    \/ GoIdleCmd58
    \/ GoIdleCmd58Tail
    \/ GoIdleCmd16

Next ==
    \/ ReadMBRSector0
    \/ ReadMBRBootSector
    \/ ReadMBRFatTable
    \/ ReadMBRRootDir
    \/ ReadFileCall
    \/ ReadFileScan
    \/ ReadFileSector

NextSector ==
    \/ ReadSectorCall
    \/ SpiReadRbyteSample
    \/ SpiReadRbyteLoop
    \/ ReadSectorResp
    \/ ReadSectorWait
    \/ ReadSectorData
    \/ ReadSectorCrc

\* readSector, byte by byte
SpecSector == InitSector /\ [][NextSector]_vars

\* spi_sdcard_goidle, byte by byte
SpecCard == Init /\ [][NextCard]_vars

\* spi_sdcard_readMBR, then spi_sdcard_readFile, sector by sector
Spec == Init /\ [][Next]_vars

\* one call of spi_sdcard_goidle or one call of readSector
InitTransport ==
    /\ pc \in {"idle", "rs_idle"}
    /\ result = NoResult
    /\ InitCardVars
    /\ InitFSVars
    /\ InitRSVars

NextTransport ==
    \/ NextCard
    \/ NextSector

\* either function, byte by byte, on a transport that completes every byte
\* transfer: the busy wait of spi_write_byte and of spi_read_rbyte on
\* SPI_DONE ends, so the single thread of control always takes its next
\* step
SpecTransport ==
    InitTransport /\ [][NextTransport]_vars /\ WF_vars(NextTransport)

---------------------------------------------------------------------------
(* Claims about spi_sdcard_goidle (specification SpecCard)                 *)

Last(s) == s[Len(s)]

IsPrefix(s, t) ==
    /\ Len(s) <= Len(t)
    /\ \A j \in 1..Len(s) : s[j] = t[j]

\* k (CMD55, ACMD41) pairs
PollPairs(k) == [j \in 1..(2 * k) |-> IF j % 2 = 1 THEN CMD55 ELSE ACMD41]

\* the frames of an initialization whose ready poll took k attempts
FullFrames(k) == <<CMD0, CMD8>> \o PollPairs(k) \o <<CMD58, CMD16>>

\* number of (CMD55, ACMD41) pairs begun
Pairs(fs) == Cardinality({j \in 1..Len(fs) : fs[j] = CMD55})

\* the operation returns failure at once and transmits nothing further
FailsNow ==
    /\ pc' = "done"
    /\ result' = FAILURE
    /\ frames' = frames

C1_Order ==
    /\ \E k \in 1..ReadyTimeout : IsPrefix(frames, FullFrames(k))
    /\ (result # NoResult) <=> (pc = "done")
    /\ result = SUCCESS => \E k \in 1..ReadyTimeout : frames = FullFrames(k)

C1_ShortCircuit ==
    /\ (pc = "gi_mode" /\ smR = 0) => FailsNow
    /\ (pc = "gi_cmd0" /\ rbR # 1) => FailsNow
    /\ (pc = "gi_cmd8" /\ rbR # 1) => FailsNow
    /\ (pc = "gi_acmd41" /\ rbR # 0) =>
           (FailsNow \/ frames' = Append(frames, CMD55))
    /\ (pc = "gi_cmd58" /\ rbR \notin {0, 1}) => FailsNow
    /\ (pc = "gi_cmd16" /\ rbR # 0) => FailsNow
    /\ (pc = "gi_cmd16" /\ rbR = 0) =>
           (pc' = "done" /\ result' = SUCCESS /\ frames' = frames)
    /\ pc = "done" => UNCHANGED <<result, frames>>

\* C1: the frames go out in the order CMD0, CMD8, (CMD55, ACMD41) pairs,
\* CMD58, CMD16; a response that fails its test (no mode-switch response,
\* CMD0 or CMD8 not 0x01, ready poll without 0x00, CMD58 above 0x01, CMD16
\* not 0x00) makes the very next step the return of failure with no further
\* frame; success is returned only after CMD16 was answered 0x00, all six
\* kinds of frame having been sent.
C1_InitOrderAndShortCircuit == []C1_Order /\ [][C1_ShortCircuit]_vars

C1_Witness ==
    /\ result = SUCCESS
    /\ Pairs(frames) = 2

C2_Step ==
    pc = "gi_acmd41" =>
        IF rbR = 0
          THEN frames' = Append(frames, CMD58) /\ result' = NoResult
          ELSE IF Pairs(frames) < ReadyTimeout
                 THEN frames' = Append(frames, CMD55) /\ result' = NoResult
                 ELSE FailsNow

\* C2: at most 32 (CMD55, ACMD41) pairs are sent; an ACMD41 response of 0x00
\* on any attempt, the 32nd included, passes the step (CMD58 is the next
\* frame, no further pair); a non-zero response starts another pair while
\* fewer than 32 were sent and returns failure after the 32nd.
C2_ReadyPollBound == [](Pairs(frames) <= ReadyTimeout) /\ [][C2_Step]_vars

\* the ready poll passed on its 32nd attempt
C2_Witness ==
    /\ Pairs(frames) = ReadyTimeout
    /\ Last(frames) = CMD58

\* C3: spi_setspimode makes at most 32 attempts and returns success exactly
\* when its last attempt obtained a response (a non-zero byte).
C3_ModeSwitchOutcome ==
    pc = "gi_mode" =>
        /\ ModeTimeout - smTimeout \in 1..ModeTimeout
        /\ (smResult = SUCCESS) <=> (smR # 0)

---------------------------------------------------------------------------
(* Claims about spi_sdcard_readMBR and spi_sdcard_readFile (Spec)          *)

\* status byte 0x00 or 0x80 and type code 4, 6 or 14
Accepted(p) ==
    /\ p.first_byte \in {0, 128}
    /\ p.partition_type \in {4, 6, 14}

C4_Rejected ==
    (sdCardSector.sec # NoSector /\ ~Accepted(sdCardPartition)) =>
        /\ pc = "mbr_failed"
        /\ result = FAILURE
        /\ reads = <<0>>

C4_Step ==
    /\ (pc = "idle" /\ sdCardSector'.sec = 0) =>
           IF Accepted(sdCardPartition')
             THEN pc' = "mbr_boot" /\ result' = NoResult
             ELSE pc' = "mbr_failed" /\ result' = FAILURE
    /\ pc = "mbr_boot" =>
           reads' = Append(reads, sdCardPartition.start_sector)
    /\ pc = "mbr_failed" => UNCHANGED <<pc, result, reads>>

\* C4: once sector 0 was read, the partition is accepted (the boot sector
\* at its start sector is the next read) exactly when its status byte is
\* 0x00 or 0x80 and its type code is 4, 6 or 14; for every other status or
\* type spi_sdcard_readMBR returns failure having read sector 0 only.
C4_PartitionValidation == []C4_Rejected /\ [][C4_Step]_vars

\* a partition of type 11 with a valid status byte was rejected
C4_Witness ==
    /\ pc = "mbr_failed"
    /\ sdCardSector.sec = 0
    /\ sdCardPartition.first_byte = 128
    /\ sdCardPartition.partition_type = 11
    /\ reads = <<0>>

\* entry e has a non-zero first name byte and equals the caller's name and
\* extension at every position these supply
Matches(e, fname, fext) ==
    /\ e.filename[1] # 0
    /\ \A k \in 1..Len(fname) : e.filename[k] = fname[k]
    /\ \A k \in 1..Len(fext) : e.ext[k] = fext[k]

\* entry k of the root directory was loaded from the card
Loaded(k) == Cardinality(RootDirEntry(ram, k)) = 1

TheEntry(k) == CHOOSE e \in RootDirEntry(ram, k) : TRUE

InReadFile == pc \in {"rf_scan", "rf_sector", "rf_done"}

\* C5: when the scan reaches a matching entry whose file size is zero,
\* spi_sdcard_readFile returns success then, having read no sector.
C5_ZeroLengthSuccess ==
    [][ (/\ pc = "rf_scan"
         /\ Loaded(n)
         /\ Matches(TheEntry(n), filename, ext)
         /\ TheEntry(n).file_size = 0) =>
            (pc' = "rf_done" /\ result' = SUCCESS /\ reads' = <<>>) ]_vars

RECURSIVE SumLen(_)
SumLen(es) == IF es = <<>> THEN 0 ELSE es[1].len + SumLen(Tail(es))

\* what spi_sdcard_readFile has written so far
FileWrites == SubSeq(ram, ramMark + 1, Len(ram))

Written == SumLen(FileWrites)

\* the extents es fill the addresses from a upwards without gap or overlap
Contiguous(es, a) ==
    \A j \in 1..Len(es) : es[j].addr = a + SumLen(SubSeq(es, 1, j - 1))

\* C6: with a sector size of 512 and a non-zero file size, at every point
\* of the cluster loop the bytes written so far plus bytesRemaining equal
\* the file size and the bytes written fill the destination from address
\* upwards without gap, so nothing at or beyond address + fileSize is
\* written; on success exactly fileSize bytes were written.
C6_ExactlyFileSize ==
    (/\ sdCardFatBootSector.sector_size = 512
     /\ \/ pc = "rf_sector"
        \/ pc = "rf_done" /\ reads # <<>>) =>
        /\ fileLength > 0
        /\ Written + bytesRemaining = fileLength
        /\ Contiguous(FileWrites, address0)
        /\ \A j \in 1..Len(FileWrites) :
               FileWrites[j].addr + FileWrites[j].len
                   <= address0 + fileLength
        /\ (pc = "rf_done" /\ result = SUCCESS) => Written = fileLength

\* a file of exactly one cluster of four sectors was read
C6_Witness ==
    /\ pc = "rf_done"
    /\ result = SUCCESS
    /\ sdCardFatBootSector.sector_size = 512
    /\ sdCardFatBootSector.sectors_per_cluster = 4
    /\ fileLength = 2048
    /\ Written = 2048

C7_Step ==
    (pc = "rf_sector" /\ result' # FAILURE) =>
        LET new == SubSeq(ram', Len(ram) + 1, Len(ram'))
            ss == sdCardFatBootSector.sector_size
            lastLen == IF fileLength % ss = 0 THEN ss ELSE fileLength % ss
        IN  IF bytesRemaining > ss
              THEN /\ Len(new) = 1
                   /\ new[1].addr = address
                   /\ new[1].sec = Last(reads')
                   /\ sdCardSector' = sdCardSector
              ELSE /\ sdCardSector'.sec = Last(reads')
                   /\ bytesRemaining' = 0
                   /\ IF bytesRemaining = 0
                        THEN new = <<>>
                        ELSE /\ bytesRemaining = lastLen
                             /\ SumLen(new) = lastLen
                             /\ Contiguous(new, address)
                             /\ new[1].sec = Last(reads')
                             /\ new[1].off = 0

C8_Skipped ==
    InReadFile =>
        \A m \in 0..(n - 1) :
            Loaded(m) => ~Matches(TheEntry(m), filename, ext)

C8_Found ==
    (pc = "rf_sector" \/ (pc = "rf_done" /\ result = SUCCESS)) =>
        \E e \in RootDirEntry(ram, n) :
            /\ Matches(e, filename, ext)
            /\ e.file_size = fileLength
            /\ (pc = "rf_sector" /\ rfI = 0) =>
                   e.starting_cluster = fileClusterStart

C8_NotFound ==
    (pc = "rf_done" /\ result = FAILURE /\ reads = <<>>) =>
        n = sdCardFatBootSector.root_dir_entries

C8_Ascending ==
    /\ pc = "loaded" => n' = 0
    /\ pc = "rf_scan" => (n' = n \/ n' = n + 1)

\* C8: the scan starts at entry 0 and goes up one entry at a time; every
\* entry passed over has a zero first name byte or differs from the
\* caller's name or extension at a position these supply; the entry whose
\* cluster and size are read is one with a non-zero first byte that equals
\* the caller's name and extension at every supplied position, so it is
\* the lowest such entry; file not found is returned only after all
\* root_dir_entries entries were passed over.
C8_NameLookup ==
    /\ [](C8_Skipped /\ C8_Found /\ C8_NotFound)
    /\ [][C8_Ascending]_vars

\* the caller's HELLO.TXT found HELLOX.TXT at entry 1, after the unused
\* entry 0 and before HELLO.TXT at entry 3
C8_Witness ==
    /\ pc = "rf_sector"
    /\ filename = <<72, 69, 76, 76, 79>>
    /\ ext = X_TXT
    /\ n = 1
    /\ Loaded(3)
    /\ TheEntry(1).filename = N_HELLOX
    /\ TheEntry(3).filename = N_HELLO
    /\ TheEntry(3).ext = X_TXT
    /\ fileLength = 512

\* no entry the root directory declares can match the caller's name
NoMatch ==
    \A m \in 0..(sdCardFatBootSector.root_dir_entries - 1) :
        \A e \in RootDirEntry(ram, m) : ~Matches(e, filename, ext)

C9_State ==
    (InReadFile /\ NoMatch) =>
        /\ pc # "rf_sector"
        /\ reads = <<>>
        /\ Len(ram) = ramMark
        /\ pc = "rf_done" => result = FAILURE

C9_Step ==
    (pc = "rf_scan" /\ NoMatch) =>
        /\ n' = n + 1
        /\ IF n' = sdCardFatBootSector.root_dir_entries
             THEN pc' = "rf_done" /\ result' = FAILURE
             ELSE pc' = "rf_scan"

\* C9: when no declared root-directory entry matches, every scan step
\* moves to the next entry, the step past the last entry returns failure,
\* and no sector is read and nothing is written during the call.
C9_FileNotFound == []C9_State /\ [][C9_Step]_vars

\* NONE.TXT was looked for among 16 entries
C9_Witness ==
    /\ pc = "rf_done"
    /\ result = FAILURE
    /\ filename = <<78, 79, 78, 69>>
    /\ ext = X_TXT
    /\ n = 16
    /\ NoMatch

\* the root directory holds exactly one file and was loaded whole
OneFile ==
    /\ \A m \in 0..(sdCardFatBootSector.root_dir_entries - 1) : Loaded(m)
    /\ Cardinality({m \in 0..(sdCardFatBootSector.root_dir_entries - 1) :
                       TheEntry(m).filename[1] # 0}) = 1

\* first sector of the data region: the sector after the root directory
DataStart ==
    rootDirSectorStart
      + (sdCardFatBootSector.root_dir_entries * EntryBytes
           + sdCardFatBootSector.sector_size - 1)
          \div sdCardFatBootSector.sector_size

\* the q-th cluster after c in the allocation chain of the loaded table
RECURSIVE Chain(_, _)
Chain(c, q) ==
    IF q = 0 THEN c
    ELSE CHOOSE w \in FatEntry(ram, Chain(c, q - 1)) : TRUE

\* the card sector holding byte o of the file starting at cluster c,
\* cluster 2 being the first cluster of the data region
FileSector(c, o) ==
    LET spc == sdCardFatBootSector.sectors_per_cluster
        ss == sdCardFatBootSector.sector_size
    IN  DataStart + (Chain(c, o \div (spc * ss)) - 2) * spc
          + (o % (spc * ss)) \div ss

\* C10: after spi_sdcard_readMBR and a successful spi_sdcard_readFile of
\* the one file of a well-formed image with 512-byte sectors, the
\* destination holds fileSize bytes and each of them is the byte of the
\* file at the same offset: it came from that offset's sector of the
\* file's cluster chain, at that offset's position in the sector.
C10_RoundTrip ==
    (/\ pc = "rf_done"
     /\ result = SUCCESS
     /\ sdCardFatBootSector.sector_size = 512
     /\ OneFile) =>
        /\ Written = fileLength
        /\ \A j \in 1..Len(FileWrites) :
               LET x == FileWrites[j]
                   o == x.addr - address0
               IN  /\ x.img = DataImg
                   /\ x.sec = FileSector(TheEntry(n).starting_cluster, o)
                   /\ x.off = o % 512

InReadMBR == pc \in {"idle", "mbr_boot", "mbr_fat", "mbr_dir"}

\* a step of spi_sdcard_readMBR that issued a sector read which stored
\* nothing: the read failed
ReadFailed ==
    /\ InReadMBR
    /\ reads' # reads
    /\ sdCardSector' = sdCardSector
    /\ ram' = ram

C11_Step ==
    /\ ReadFailed => (pc' = "mbr_failed" /\ result' = FAILURE)
    /\ (ReadFailed /\ pc = "mbr_fat") =>
           \A j \in 1..Len(reads') :
               reads'[j] < sdCardPartition.start_sector
                             + sdCardFatBootSector.reserved_sectors
                             + sdCardFatBootSector.number_of_fats
                                 * sdCardFatBootSector.fat_size_sectors
    /\ pc = "mbr_failed" => UNCHANGED <<pc, result, reads, ram>>

\* C11: a sector read of spi_sdcard_readMBR that fails (sector 0, the boot
\* sector, an allocation-table sector or a root-directory sector) makes
\* that very step the return of failure, after which no sector is read;
\* when an allocation-table read failed no root-directory sector was read.
C11_ReadFailureAborts == [][C11_Step]_vars

\* the second allocation-table sector could not be read
C11_Witness ==
    /\ pc = "mbr_failed"
    /\ sdCardFatBootSector.fat_size_sectors = 2
    /\ reads = <<0, 63, 64, 65>>
    /\ Len(ram) = 1

\* the total sector count: the short field, or the long one when the
\* short field is zero
TotalSectors(bs) ==
    IF bs.total_sectors_short # 0 THEN bs.total_sectors_short
    ELSE bs.total_sectors_long

\* C12: once the boot sector was read, spi_sdcard_readMBR returns failure
\* at that step exactly when the total sector count is zero.
C12_EmptyFilesystem ==
    [][ (pc = "mbr_boot" /\ sdCardSector' # sdCardSector) =>
            ((pc' = "mbr_failed" /\ result' = FAILURE)
                <=> TotalSectors(sdCardFatBootSector') = 0) ]_vars

---------------------------------------------------------------------------
(* Claims about readSector (specification SpecSector)                      *)

\* C13: while it waits for the block-start token readSector makes at most
\* 16384 single-byte reads, never a 16385th.
C13_TokenWaitBound == pc = "rs_wait" => rsWaits <= TokenTimeout

C13_Step ==
    pc = "rs_wait" =>
        IF rsR = BlockStart
          THEN pc' = "rs_data" /\ result' = NoResult
          ELSE IF rsWaits <= TokenTimeout
                 THEN /\ pc' = "rs_wait"
                      /\ rsWaits' = rsWaits + 1
                      /\ result' = NoResult
                 ELSE pc' = "rs_done" /\ result' = FAILURE

\* C13 as amended: readSector makes at most 16385 single-byte reads while
\* it waits for the token, one before the loop and at most 16384 in it;
\* the first read that returns 0xFE ends the wait and the block follows;
\* it returns failure when none of the 16385 reads returned 0xFE.
C13_TokenWaitBoundAmended ==
    /\ [](pc = "rs_wait" => rsWaits \in 1..(TokenTimeout + 1))
    /\ [][C13_Step]_vars

\* the token came with the 16385th read
C13_Witness ==
    /\ pc = "rs_wait"
    /\ rsWaits = TokenTimeout + 1
    /\ rsTimeout = 0
    /\ rsR = BlockStart

---------------------------------------------------------------------------
(* Claims about spi_read_rbyte (specification SpecCard)                    *)

\* filler bytes sent by the running spi_read_rbyte: one per pass of its
\* loop, each pass counting timeout down
Fillers == RbyteTimeout - rbTimeout

C14_Step ==
    /\ pc = "rb_sample" => (pc' = "rb_loop" /\ Fillers' = 0)
    /\ pc = "rb_loop" =>
           IF rbR < 128
             THEN pc' = ret /\ rbR' = rbR /\ Fillers' = Fillers
             ELSE IF Fillers < 32
                    THEN pc' = "rb_loop" /\ Fillers' = Fillers + 1
                    ELSE pc' = ret /\ rbR' = rbR /\ Fillers' = Fillers

\* C14: spi_read_rbyte returns the byte last sampled as soon as that byte
\* has its high bit clear, without a filler when this is the first sample;
\* while the sampled byte has the high bit set it sends one filler and
\* samples again, up to 32 fillers, after which it returns the last byte
\* sampled whatever its high bit.
C14_ResponseByte ==
    /\ [](pc = "rb_loop" => Fillers \in 0..32)
    /\ [][C14_Step]_vars

\* the reply to CMD0 after 32 fillers still has the high bit set
C14_Witness ==
    /\ pc = "gi_cmd0"
    /\ rbR = 255
    /\ Fillers = 32

\* the first k bytes the card sent after its token are at storage[0..k-1]
\* in the order sent, and nothing else was stored
StoredInOrder(k) ==
    /\ DOMAIN rsStorage = 0..(k - 1)
    /\ \A j \in 0..(k - 1) : rsStorage[j] = DataByte(rsBlock, j)

C15_State ==
    /\ pc = "rs_data" => (rsData = rsN /\ rsN <= 512 /\ StoredInOrder(rsN))
    /\ pc = "rs_crc" =>
           (rsData = 512 + rsN /\ rsN <= 8 /\ StoredInOrder(512))
    /\ (pc = "rs_done" /\ result = SUCCESS) =>
           (rsData = 520 /\ StoredInOrder(512))
    /\ (pc = "rs_done" /\ result = FAILURE) =>
           (rsData = 0 /\ StoredInOrder(0))

C15_Step ==
    /\ (pc' = "rs_wait" /\ pc # "rs_wait") => (pc = "rs_resp" /\ rbR = 0)
    /\ (pc' = "rs_data" /\ pc # "rs_data") =>
           (pc = "rs_wait" /\ rsR = 254)
    /\ (pc' = "rs_crc" /\ pc # "rs_crc") => pc = "rs_data"
    /\ (pc' = "rs_done" /\ result' = SUCCESS) => pc \in {"rs_crc", "rs_done"}

\* C15: readSector returns success only after the command was answered
\* 0x00 and the token 0xFE was read; it then has made exactly 520
\* single-byte reads after the token, the first 512 stored in the order
\* read at storage[0..511], the last 8 stored nowhere; a failed call has
\* read and stored nothing of a block.
C15_BlockTransfer == []C15_State /\ [][C15_Step]_vars

\* sector 0x00010203 was read
C15_Witness ==
    /\ pc = "rs_done"
    /\ result = SUCCESS
    /\ rsFrame = <<255, 81, 0, 1, 2, 3, 255>>
    /\ rsData = 520
    /\ rsStorage[0] # rsStorage[511]
    /\ 511 \in DOMAIN rsStorage

---------------------------------------------------------------------------
(* Further claims about spi_sdcard_readMBR and spi_sdcard_readFile (Spec)  *)

\* ceil(root_dir_entries * 32 / sector_size)
DirSectorsNeeded ==
    (sdCardFatBootSector.root_dir_entries * 32
       + sdCardFatBootSector.sector_size - 1)
      \div sdCardFatBootSector.sector_size

\* C16: after a successful spi_sdcard_readMBR the last
\* ceil(root_dir_entries * 32 / sector_size) sectors read are the
\* consecutive sectors from start_sector + reserved_sectors +
\* number_of_fats * fat_size_sectors on, and each of the
\* root_dir_entries entries of sdCardFat16RootDir was loaded from the card.
C16_RootDirLoadedWhole ==
    pc = "loaded" =>
        LET first == sdCardPartition.start_sector
                       + sdCardFatBootSector.reserved_sectors
                       + sdCardFatBootSector.number_of_fats
                           * sdCardFatBootSector.fat_size_sectors
            before == 2 + sdCardFatBootSector.fat_size_sectors
        IN  /\ Len(reads) = before + DirSectorsNeeded
            /\ \A j \in 1..DirSectorsNeeded :
                   reads[before + j] = first + j - 1
            /\ \A m \in 0..(sdCardFatBootSector.root_dir_entries - 1) :
                   Loaded(m)

\* C17: once bytesRemaining has become 0 in the sector loop of
\* spi_sdcard_readFile, the call reads no further sector.
C17_StopsAfterLastCopy ==
    [][ (pc = "rf_sector" /\ bytesRemaining = 0) => reads' = reads ]_vars

\* 1 + floor(fileSize / sectorsPerCluster / sectorSize)
ClustersVisited ==
    1 + (fileLength \div sdCardFatBootSector.sectors_per_cluster)
          \div sdCardFatBootSector.sector_size

\* sector s of cluster c as spi_sdcard_readFile locates it
SectorOf(c, s) ==
    rootDirSectorStart + (c - 1) * sdCardFatBootSector.sectors_per_cluster + s

C18_State ==
    /\ pc = "rf_sector" =>
           /\ fileLength > 0
           /\ rfI < ClustersVisited
           /\ sector < sdCardFatBootSector.sectors_per_cluster
           /\ Len(reads) = rfI * sdCardFatBootSector.sectors_per_cluster
                             + sector
    /\ (pc = "rf_done" /\ result = SUCCESS /\ fileLength > 0) =>
           /\ rfI = ClustersVisited
           /\ Len(reads) = ClustersVisited
                             * sdCardFatBootSector.sectors_per_cluster

C18_Step ==
    /\ (pc # "rf_sector" /\ pc' = "rf_sector") =>
           /\ rfI' = 0
           /\ \E e \in RootDirEntry(ram, n') :
                  fileClusterStart' = e.starting_cluster
    /\ pc = "rf_sector" =>
           /\ reads' = Append(reads, SectorOf(fileClusterStart, sector))
           /\ result' # FAILURE =>
                  IF sector + 1 < sdCardFatBootSector.sectors_per_cluster
                    THEN /\ sector' = sector + 1
                         /\ UNCHANGED <<fileClusterStart, rfI, pc>>
                    ELSE /\ fileClusterStart'
                              \in FatEntry(ram', fileClusterStart)
                         /\ rfI' = rfI + 1
                         /\ IF rfI' = ClustersVisited
                              THEN pc' = "rf_done" /\ result' = SUCCESS
                              ELSE pc' = "rf_sector" /\ sector' = 0

\* C18: for a non-zero file size and while the sector reads succeed,
\* spi_sdcard_readFile visits exactly 1 + floor(fileSize /
\* sectorsPerCluster / sectorSize) clusters: the first is the entry's
\* starting cluster, each next one is the allocation-table entry at the
\* current cluster's index whatever its value, and of each visited
\* cluster c it reads the sectors rootDirSectorStart + (c - 1) *
\* sectorsPerCluster + s for s = 0, 1, ... in this order.
C18_ClustersVisited == []C18_State /\ [][C18_Step]_vars

\* ODD.BIN, 1025 bytes in clusters 2, 3 and 4 of one sector each
C18_Witness ==
    /\ pc = "rf_done"
    /\ result = SUCCESS
    /\ fileLength = 1025
    /\ sdCardFatBootSector.sectors_per_cluster = 1
    /\ reads = <<67, 68, 69>>

\* number of 16-bit entries of the allocation table
TableLength ==
    (sdCardFatBootSector.fat_size_sectors
       * sdCardFatBootSector.sector_size) \div 2

\* values of 0xFFF8 and above end a chain
Terminal(w) == w >= 65528

\* ceil(fileSize / (sectorsPerCluster * sectorSize))
ClustersNeeded ==
    (fileLength + sdCardFatBootSector.sectors_per_cluster
                    * sdCardFatBootSector.sector_size - 1)
      \div (sdCardFatBootSector.sectors_per_cluster
              * sdCardFatBootSector.sector_size)

\* the clusters of the chain of the file of entry n
FileChain ==
    {Chain(TheEntry(n).starting_cluster, q) : q \in 0..(ClustersNeeded - 1)}

\* the chain of the file of entry n has exactly ClustersNeeded clusters,
\* all of them data clusters inside the table, and then a terminal marker
WellFormedChain ==
    /\ Loaded(n)
    /\ \A c \in FileChain : c >= 2 /\ c < TableLength /\ ~Terminal(c)
    /\ \A w \in FatEntry(ram, Chain(TheEntry(n).starting_cluster,
                                    ClustersNeeded - 1)) : Terminal(w)

\* C19: on a well-formed chain the cluster number from which
\* spi_sdcard_readFile computes the sector to read, and with which it next
\* indexes sdCardFatTable, is a cluster of the file's chain, no terminal
\* marker, and below the table length.
C19_ClustersWithinChain ==
    (pc = "rf_sector" /\ WellFormedChain) =>
        /\ fileClusterStart \in FileChain
        /\ ~Terminal(fileClusterStart)
        /\ fileClusterStart < TableLength

\* C20: spi_sdcard_readFile terminates; in particular every pass of its
\* directory scan moves n to a later entry or ends the scan.
C20_ScanAdvances ==
    [][ pc = "rf_scan" => (n' > n \/ pc' # "rf_scan") ]_vars

---------------------------------------------------------------------------
(* Claims about termination (specification SpecTransport)                  *)

\* spi_sdcard_goidle or readSector has returned
Returned == pc \in {"done", "rs_done"}

\* every counter of a retry loop stays within its budget
C21_Budgets ==
    /\ pc \in {"sm_cs_high", "sm_pulse"} => smTimeout \in 1..ModeTimeout
    /\ pc = "rb_loop" => rbTimeout \in 0..RbyteTimeout
    /\ pc \in {"gi_cmd55", "gi_acmd41"} => timeout \in 1..ReadyTimeout
    /\ pc = "rs_wait" => rsTimeout \in 0..TokenTimeout
    /\ pc = "sm_pulse" => smI \in 0..ModePulses
    /\ pc \in {"gi_cmd8_tail", "gi_cmd58_tail"} => i \in 0..TailBytes
    /\ pc = "rs_data" => rsN \in 0..SectorBytes
    /\ pc = "rs_crc" => rsN \in 0..CrcBytes

\* every pass of a retry loop uses up one unit of the loop's budget, and a
\* loop whose budget is used up is not entered again
C21_Step ==
    /\ (pc = "sm_resp" /\ pc' = "sm_cs_high") =>
           (smTimeout' = smTimeout - 1 /\ smTimeout' > 0)
    /\ (pc = "rb_loop" /\ pc' = "rb_loop") =>
           (rbTimeout' = rbTimeout - 1 /\ rbTimeout' >= 0)
    /\ (pc = "gi_acmd41" /\ pc' = "rb_sample" /\ Last(frames') = CMD55) =>
           (timeout' = timeout - 1 /\ timeout' > 0)
    /\ (pc = "rs_wait" /\ pc' = "rs_wait") =>
           (rsTimeout' = rsTimeout - 1 /\ rsTimeout' >= 0)
    /\ Returned => UNCHANGED vars

\* C21: on a transport that completes every byte transfer
\* spi_sdcard_goidle and readSector each eventually return, whatever bytes
\* are sampled from the card: each retry loop (mode-switch attempts, wait
\* for a response byte, ready poll, wait for the block-start token) counts
\* its budget down by one per pass and is left when the budget is used up.
C21_EveryLoopStops ==
    /\ <>Returned
    /\ []C21_Budgets
    /\ [][C21_Step]_vars

\* spi_sdcard_goidle has returned after all 32 mode-switch attempts went
\* without a response
C21_Witness ==
    /\ pc = "done"
    /\ result = FAILURE
    /\ frames = <<>>
    /\ r = FAILURE
    /\ cs = CS_LOW

---------------------------------------------------------------------------
(* Claims about the buffers of the metadata load (specification Spec)      *)

\* the end of available memory
Top == MAIN_RAM_BASE + MAIN_RAM_SIZE

\* the table buffer is the sectorSize x tableSizeInSectors bytes below Top
TableBufferBase ==
    Top - sdCardFatBootSector.sector_size
            * sdCardFatBootSector.fat_size_sectors

\* the directory buffer is the rootEntryCount x 32 bytes below the table
\* buffer
DirBufferBase == TableBufferBase - sdCardFatBootSector.root_dir_entries * 32

\* the extent e lies within [lo, hi)
Inside(e, lo, hi) == lo <= e.addr /\ e.addr + e.len <= hi

\* C22: whatever geometry the boot sector declares, every
\* allocation-table sector is written inside the table buffer, which ends
\* at the top of memory, and every root-directory sector inside the
\* directory buffer just below it: no directory write reaches the table
\* buffer and no write passes the top of memory.
C22_LoadStaysInBuffers ==
    \A j \in 1..Len(ram) :
        /\ ram[j].img.kind = "fat" => Inside(ram[j], TableBufferBase, Top)
        /\ ram[j].img.kind = "dir" =>
               Inside(ram[j], DirBufferBase, TableBufferBase)

---------------------------------------------------------------------------
(* Claims about the allocation-table load (specification Spec)             *)

\* allocation-table sectors read so far by the running spi_sdcard_readMBR:
\* n of them inside the load, all of them after it
TableSectorsRead ==
    IF pc = "mbr_fat" THEN n ELSE sdCardFatBootSector.fat_size_sectors

\* partition start + reserved sectors
FirstTableSector ==
    sdCardPartition.start_sector + sdCardFatBootSector.reserved_sectors

\* the first sector after all copies of the table
AfterTables ==
    FirstTableSector + sdCardFatBootSector.number_of_fats
                         * sdCardFatBootSector.fat_size_sectors

C23_State ==
    pc \in {"mbr_fat", "mbr_dir", "loaded"} =>
        /\ Len(reads) >= 2 + TableSectorsRead
        /\ pc = "mbr_fat" => Len(reads) = 2 + TableSectorsRead
        /\ \A j \in 0..(TableSectorsRead - 1) :
               /\ reads[3 + j] = FirstTableSector + j
               /\ ram[j + 1].img.kind = "fat"
               /\ ram[j + 1].sec = FirstTableSector + j
               /\ ram[j + 1].off = 0
               /\ ram[j + 1].addr =
                      TableBufferBase + sdCardFatBootSector.sector_size * j
        /\ \A j \in (3 + TableSectorsRead)..Len(reads) :
               reads[j] >= AfterTables
        /\ \A j \in (TableSectorsRead + 1)..Len(ram) :
               ram[j].img.kind # "fat"

\* C23: the allocation-table load reads exactly fat_size_sectors sectors,
\* the sectors (partition start + reserved sectors) + n for n = 0, 1, ...
\* in that order, and stores sector n at byte offset sector_size x n of the
\* table buffer; no sector of a further copy of the table is read.
C23_TableLoad == []C23_State

\* a table of two sectors with two copies on the card was loaded
C23_Witness ==
    /\ pc = "loaded"
    /\ sdCardFatBootSector.fat_size_sectors = 2
    /\ sdCardFatBootSector.number_of_fats = 2
    /\ reads = <<0, 63, 64, 65, 68, 69>>

---------------------------------------------------------------------------
(* Claims about a failed readSector (specification SpecSector)             *)

\* no byte of storage has been written
Untouched == DOMAIN rsStorage = {}

C24_State == (pc = "rs_done" /\ result = FAILURE) => Untouched

C24_Step ==
    (pc' = "rs_done" /\ result' = FAILURE) =>
        /\ \/ pc = "rs_resp" /\ rbR # 0
           \/ pc = "rs_wait" /\ rsR # BlockStart /\ rsTimeout = 0
           \/ pc = "rs_done"
        /\ rsStorage' = rsStorage
        /\ rsData' = 0

\* C24: readSector returns failure only from the test of the command
\* response (not 0x00) or from the test after the wait for the block-start
\* token (not seen within the budget), and then no byte of storage has been
\* written and no byte of a block has been read.
C24_FailedReadLeavesStorage == []C24_State /\ [][C24_Step]_vars

\* a read of sector 0x00010203 has failed
C24_Witness ==
    /\ pc = "rs_done"
    /\ result = FAILURE
    /\ rsFrame = <<255, 81, 0, 1, 2, 3, 255>>
    /\ Untouched

=============================================================================
